---- MODULE Spec2Model ----
(***************************************************************************)
(* Model of the ID Decoder page (src/src/pages/IdDecoderTool.tsx).         *)
(*                                                                         *)
(* Representation choices                                                  *)
(*  - A JavaScript string is the sequence of its UTF-16 code units         *)
(*    (what charCodeAt returns).                                           *)
(*  - A BigInt >= 0 is the little-endian sequence of its digits in base    *)
(*    2^15 (limbs) without a most significant 0, so 0 is << >> and equal   *)
(*    numbers are equal sequences.  There is no width: like BigInt the     *)
(*    value grows with its operands.  The decoder never builds a negative  *)
(*    BigInt.                                                              *)
(*  - A Number that holds an integer below 2^53 is exact, so it is         *)
(*    modelled by that integer: a TLA+ integer where it stays under 2^31   *)
(*    (appId, clusterId, sequence), a limb sequence otherwise              *)
(*    (timestamp, Date.now()).                                             *)
(***************************************************************************)
EXTENDS Integers, Sequences, FiniteSets, TLC

(***************************************************************************)
(* Arbitrary precision naturals (BigInt operators of the host language).   *)
(* A conjunct Len(x) >= 0 on an accumulator is always true: it only makes  *)
(* the accumulator be evaluated at each step instead of at the end.        *)
(***************************************************************************)
\* one bit less than 16, so that the product of two limbs is below 2^31
LimbBits == 16 - 1

Base == 2 ^ LimbBits

Max(a, b) == IF a >= b THEN a ELSE b

Min(a, b) == IF a <= b THEN a ELSE b

Limb(a, i) == IF i >= 1 /\ i <= Len(a) THEN a[i] ELSE 0

RECURSIVE Norm(_)
Norm(a) ==
  IF Len(a) = 0 THEN << >>
  ELSE IF a[Len(a)] # 0 THEN a
  ELSE Norm(SubSeq(a, 1, Len(a) - 1))

RECURSIVE FromInt(_)
FromInt(n) == IF n = 0 THEN << >> ELSE <<n % Base>> \o FromInt(n \div Base)

\* the value as a TLA+ integer, for values below 2^31
RECURSIVE ToInt(_)
ToInt(a) == IF Len(a) = 0 THEN 0 ELSE a[1] + Base * ToInt(Tail(a))

RECURSIVE AddFrom(_, _, _, _)
AddFrom(a, b, i, c) ==
  IF i > Max(Len(a), Len(b))
  THEN (IF c = 0 THEN << >> ELSE <<c>>)
  ELSE LET s == Limb(a, i) + Limb(b, i) + c
       IN  <<s % Base>> \o AddFrom(a, b, i + 1, s \div Base)

BigAdd(a, b) == AddFrom(a, b, 1, 0)

RECURSIVE SubFrom(_, _, _, _)
SubFrom(a, b, i, c) ==
  IF i > Len(a) THEN << >>
  ELSE LET s == Limb(a, i) - Limb(b, i) - c
       IN  <<s % Base>> \o SubFrom(a, b, i + 1, IF s < 0 THEN 1 ELSE 0)

\* a - b for a >= b
BigSub(a, b) == Norm(SubFrom(a, b, 1, 0))

\* a << n
BigShl(a, n) ==
  LET q == n \div LimbBits
      r == n % LimbBits
  IN  Norm([j \in 1..(Len(a) + q + 1) |->
              IF j <= q THEN 0
              ELSE ((Limb(a, j - q) * 2 ^ r) % Base)
                     + (Limb(a, j - q - 1) \div 2 ^ (LimbBits - r))])

\* a >> n
BigShr(a, n) ==
  LET q == n \div LimbBits
      r == n % LimbBits
  IN  IF q >= Len(a) THEN << >>
      ELSE Norm([j \in 1..(Len(a) - q) |->
                   (a[j + q] \div 2 ^ r)
                     + (Limb(a, j + q + 1) % 2 ^ r) * 2 ^ (LimbBits - r)])

RECURSIVE AndInt(_, _)
AndInt(x, y) ==
  IF x = 0 \/ y = 0 THEN 0
  ELSE (x % 2) * (y % 2) + 2 * AndInt(x \div 2, y \div 2)

RECURSIVE OrInt(_, _)
OrInt(x, y) ==
  IF x = 0 THEN y
  ELSE IF y = 0 THEN x
  ELSE Max(x % 2, y % 2) + 2 * OrInt(x \div 2, y \div 2)

\* a & b
BigAnd(a, b) == Norm([j \in 1..Min(Len(a), Len(b)) |-> AndInt(a[j], b[j])])

\* a | b
BigOr(a, b) ==
  [j \in 1..Max(Len(a), Len(b)) |-> OrInt(Limb(a, j), Limb(b, j))]

\* a times the limb m, from limb i on with carry c
RECURSIVE MulLimbFrom(_, _, _, _)
MulLimbFrom(a, m, i, c) ==
  IF i > Len(a) THEN (IF c = 0 THEN << >> ELSE <<c>>)
  ELSE LET s == a[i] * m + c
       IN  <<s % Base>> \o MulLimbFrom(a, m, i + 1, s \div Base)

RECURSIVE MulFrom(_, _, _)
MulFrom(a, b, i) ==
  IF i > Len(b) THEN << >>
  ELSE BigAdd(Norm([j \in 1..(i - 1) |-> 0] \o MulLimbFrom(a, b[i], 1, 0)),
              MulFrom(a, b, i + 1))

\* a * b
BigMul(a, b) == MulFrom(a, b, 1)

RECURSIVE LessFrom(_, _, _)
LessFrom(a, b, i) ==
  IF i = 0 THEN FALSE
  ELSE IF a[i] # b[i] THEN a[i] < b[i]
  ELSE LessFrom(a, b, i - 1)

\* a < b
BigLess(a, b) ==
  IF Len(a) # Len(b) THEN Len(a) < Len(b) ELSE LessFrom(a, b, Len(a))

\* a <= b
BigLeq(a, b) == ~BigLess(b, a)

\* quotient and remainder of a by the positive integer m < Base, by long
\* division from the most significant limb down
RECURSIVE DivFrom(_, _, _, _, _)
DivFrom(a, m, i, r, q) ==
  IF Len(q) >= 0 /\ i = 0 THEN [q |-> Norm(q), r |-> r]
  ELSE LET r2 == r * Base + a[i]
       IN  DivFrom(a, m, i - 1, r2 % m, <<r2 \div m>> \o q)

BigDivMod(a, m) == DivFrom(a, m, Len(a), 0, << >>)

(***************************************************************************)
(* Strings: sequences of UTF-16 code units.                                *)
(***************************************************************************)
\* WhiteSpace and LineTerminator code units, the ones String.prototype.trim strips
WhiteSpace ==
  {9, 10, 11, 12, 13, 32, 160, 5760, 8232, 8233, 8239, 8287, 12288, 65279}
    \cup (8192..8202)

RECURSIVE TrimStart(_)
TrimStart(s) ==
  IF s # << >> /\ s[1] \in WhiteSpace THEN TrimStart(Tail(s)) ELSE s

RECURSIVE TrimEnd(_)
TrimEnd(s) ==
  IF s # << >> /\ s[Len(s)] \in WhiteSpace
  THEN TrimEnd(SubSeq(s, 1, Len(s) - 1))
  ELSE s

\* no trimming at all
Trim_none(s) == s

\* String.prototype.trim
Trim(s) == TrimEnd(TrimStart(s))

\* Lower-case mapping of one code unit (Unicode default case conversion as
\* String.prototype.toLowerCase applies it), for Basic Latin, Latin-1,
\* U+0130 (two code units) and the letter-like symbols U+212A and U+212B;
\* every other code unit the model uses has no lower-case mapping.
LowerCaseUnit(c) ==
  IF c >= 65 /\ c <= 90 THEN <<c + 32>>
  ELSE IF c >= 192 /\ c <= 222 /\ c # 215 THEN <<c + 32>>
  ELSE IF c = 304 THEN <<105, 775>>
  ELSE IF c = 8490 THEN <<107>>
  ELSE IF c = 8491 THEN <<229>>
  ELSE <<c>>

RECURSIVE ToLowerCase(_)
ToLowerCase(s) ==
  IF s = << >> THEN << >> ELSE LowerCaseUnit(s[1]) \o ToLowerCase(Tail(s))

\* Upper-case mapping, on the code units encodeToBase36 produces (0-9a-z)
RECURSIVE ToUpperCase(_)
ToUpperCase(s) ==
  IF s = << >> THEN << >>
  ELSE <<IF s[1] >= 97 /\ s[1] <= 122 THEN s[1] - 32 ELSE s[1]>>
         \o ToUpperCase(Tail(s))

\* /^\d$/.test(s): one digit
IsDecimalDigits_oneDigit(s) == Len(s) = 1 /\ s[1] >= 48 /\ s[1] <= 57

\* /^\d/.test(s): a digit first, whatever follows
IsDecimalDigits_leadingDigit(s) == s # << >> /\ s[1] >= 48 /\ s[1] <= 57

\* /^\d+$/.test(s): \d is [0-9] and, without the m flag, $ is the end of input
IsDecimalDigits(s) ==
  s # << >> /\ \A i \in 1..Len(s) : s[i] >= 48 /\ s[i] <= 57

\* the accumulation of BigInt(s) adding the code unit, not the digit
RECURSIVE DecimalFrom_codeUnit(_, _, _)
DecimalFrom_codeUnit(s, i, acc) ==
  IF Len(acc) >= 0 /\ i > Len(s) THEN acc
  ELSE DecimalFrom_codeUnit(s, i + 1,
                            BigAdd(BigMul(acc, FromInt(10)), FromInt(s[i])))

\* BigInt(s) for a string of decimal digits
RECURSIVE DecimalFrom(_, _, _)
DecimalFrom(s, i, acc) ==
  IF Len(acc) >= 0 /\ i > Len(s) THEN acc
  ELSE DecimalFrom(s, i + 1,
                   BigAdd(BigMul(acc, FromInt(10)), FromInt(s[i] - 48)))

StringToBigInt(s) == DecimalFrom(s, 1, << >>)

\* BigInt.prototype.toString(radix): digits 0-9 then a-z, no leading zero
DigitUnit(d) == IF d < 10 THEN 48 + d ELSE 87 + d

RECURSIVE ToStringFrom(_, _)
ToStringFrom(v, radix) ==
  IF v = << >> THEN << >>
  ELSE LET d == BigDivMod(v, radix)
       IN  ToStringFrom(d.q, radix) \o <<DigitUnit(d.r)>>

BigIntToString(v, radix) ==
  IF v = << >> THEN <<48>> ELSE ToStringFrom(v, radix)

(***************************************************************************)
(* Constants of the decoder.  << is the 32-bit shift of Number: the shift  *)
(* count is taken modulo 32 and the result is a signed 32-bit integer.     *)
(***************************************************************************)
BITS3 == 40

BITS2 == 14

BITS1 == 2

BITS0 == 7

BITS01 == BITS0 + BITS1

BITS012 == BITS01 + BITS2

\* 1 << n on Numbers
Shl32One(n) == IF n % 32 = 31 THEN (-2147483647) - 1 ELSE 2 ^ (n % 32)

MASK1 == FromInt(Shl32One(BITS1) - 1)

MASK0 == FromInt(Shl32One(BITS0) - 1)

MASK3 == FromInt(Shl32One(BITS3) - 1)

MASK2 == FromInt(Shl32One(BITS2) - 1)

\* 1451574000000
TIMESTAMP_OFFSET == BigMul(FromInt(1451574), FromInt(1000000))

(***************************************************************************)
(* The optional results of the source: null, or a value.                   *)
(***************************************************************************)
Null == [isNull |-> TRUE]

Some(v) == [isNull |-> FALSE, val |-> v]

\* the digit of decode36 with A-Z one too high: char - 54
Digit36_upperCaseOffByOne(char) ==
  IF char >= 48 /\ char <= 57 THEN char - 48
  ELSE IF char >= 65 /\ char <= 90 THEN char - 54
  ELSE IF char >= 97 /\ char <= 122 THEN char - 87
  ELSE -1

\* the digit of decode36 without its A-Z branch
Digit36_noUpperCase(char) ==
  IF char >= 48 /\ char <= 57 THEN char - 48
  ELSE IF char >= 97 /\ char <= 122 THEN char - 87
  ELSE -1

\* digit of one code unit in decode36, -1 for a code unit that is none
Digit36(char) ==
  IF char >= 48 /\ char <= 57 THEN char - 48
  ELSE IF char >= 65 /\ char <= 90 THEN char - 55
  ELSE IF char >= 97 /\ char <= 122 THEN char - 87
  ELSE -1

\* the accumulation of decode36 in an unsigned 64-bit integer: every step is
\* taken modulo 2^64
RECURSIVE Decode36From_wraps64(_, _, _)
Decode36From_wraps64(value, i, result) ==
  IF Len(result) >= 0 /\ i > Len(value) THEN Some(result)
  ELSE LET digit == Digit36(value[i])
       IN  IF digit = -1 \/ digit >= 36 THEN Null
           ELSE Decode36From_wraps64(
                  value, i + 1,
                  BigAnd(BigAdd(BigMul(result, FromInt(36)), FromInt(digit)),
                         BigSub(BigShl(FromInt(1), 64), FromInt(1))))

RECURSIVE Decode36From(_, _, _)
Decode36From(value, i, result) ==
  IF Len(result) >= 0 /\ i > Len(value) THEN Some(result)
  ELSE LET digit == Digit36(value[i])
       IN  IF digit = -1 \/ digit >= 36 THEN Null
           ELSE Decode36From(value, i + 1,
                             BigAdd(BigMul(result, FromInt(36)), FromInt(digit)))

decode36(value) == Decode36From(value, 1, << >>)

getAppId(id) == ToInt(BigAnd(id, MASK0))

\* getClusterId with the mask of the appId field
getClusterId_wideMask(id) == ToInt(BigAnd(BigShr(id, BITS0), MASK0))

getClusterId(id) == ToInt(BigAnd(BigShr(id, BITS0), MASK1))

\* getSequence shifting by BITS0 in place of BITS01
getSequence_shiftBITS0(id) == ToInt(BigAnd(BigShr(id, BITS0), MASK2))

getSequence(id) == ToInt(BigAnd(BigShr(id, BITS01), MASK2))

\* getTimestamp masking the delta with MASK3
getTimestamp_masked(id) ==
  BigAdd(BigAnd(BigShr(id, BITS012), MASK3), TIMESTAMP_OFFSET)

getTimestamp(id) == BigAdd(BigShr(id, BITS012), TIMESTAMP_OFFSET)

encodeToBase36(decimal) == ToUpperCase(BigIntToString(decimal, 36))

(***************************************************************************)
(* formatTimestamp.  A time zone is its offset from UTC in minutes: the    *)
(* zone Asia/Tokyo has had the offset +9:00 without daylight saving time   *)
(* over all of the decodable range (2016 to 2050); the host's zone is      *)
(* taken to have a fixed offset too.                                       *)
(***************************************************************************)
TokyoOffsetMinutes == 540

LocalOffsetMinutes == 60

\* String(n), n >= 0
RECURSIVE IntToString(_)
IntToString(n) ==
  IF n < 10 THEN <<48 + n>> ELSE IntToString(n \div 10) \o <<48 + (n % 10)>>

\* String.prototype.padStart(width, '0')
PadStart(s, width) == [i \in 1..(width - Len(s)) |-> 48] \o s

\* new Date(timestamp) is a valid date up to 8.64e15 ms
DateIsValid(timestamp) ==
  BigLeq(timestamp, BigMul(FromInt(864 * 10 ^ 6), FromInt(10 ^ 7)))

\* year, month and day of the day number z (days since 1970-01-01)
CivilFromDays(z) ==
  LET z2  == z + 719468
      era == z2 \div 146097
      doe == z2 - era * 146097
      yoe == (doe - doe \div 1460 + doe \div 36524 - doe \div 146096) \div 365
      doy == doe - (365 * yoe + yoe \div 4 - yoe \div 100)
      mp  == (5 * doy + 2) \div 153
      d   == doy - (153 * mp + 2) \div 5 + 1
      m   == IF mp < 10 THEN mp + 3 ELSE mp - 9
      y   == yoe + era * 400 + (IF m <= 2 THEN 1 ELSE 0)
  IN  [year |-> y, month |-> m, day |-> d]

\* the calendar fields of a valid date in the zone of the given offset
DateFields(timestamp, offsetMinutes) ==
  LET bySecond == BigDivMod(timestamp, 1000)
      byMinute == BigDivMod(bySecond.q, 60)
      minutes  == ToInt(byMinute.q) + offsetMinutes
      civil    == CivilFromDays(minutes \div 1440)
  IN  [year |-> civil.year, month |-> civil.month, day |-> civil.day,
       hours |-> (minutes \div 60) % 24, minutes |-> minutes % 60,
       seconds |-> byMinute.r, milliseconds |-> bySecond.r]

\* `${year}/${month}/${day} ${hours}:${minutes}:${seconds}.${milliseconds}`
DateTemplate(year, f) ==
  year \o <<47>> \o PadStart(IntToString(f.month), 2)
       \o <<47>> \o PadStart(IntToString(f.day), 2)
       \o <<32>> \o PadStart(IntToString(f.hours), 2)
       \o <<58>> \o PadStart(IntToString(f.minutes), 2)
       \o <<58>> \o PadStart(IntToString(f.seconds), 2)
       \o <<46>> \o PadStart(IntToString(f.milliseconds), 3)

\* The result is Some(string), or Null when the call throws: formatToParts
\* throws a RangeError on an invalid date, the local getters give NaN (the
\* code units of "NaN/NaN/NaN NaN:NaN:NaN.NaN").
formatTimestamp(timestamp, timezone) ==
  IF timezone = "japan"
  THEN IF DateIsValid(timestamp)
       THEN LET f == DateFields(timestamp, TokyoOffsetMinutes)
            IN  Some(DateTemplate(IntToString(f.year), f))
       ELSE Null
  ELSE IF DateIsValid(timestamp)
       THEN LET f == DateFields(timestamp, LocalOffsetMinutes)
            IN  Some(DateTemplate(IntToString(f.year), f))
       ELSE Some(<<78, 97, 78, 47, 78, 97, 78, 47, 78, 97, 78, 32, 78, 97, 78,
                   58, 78, 97, 78, 58, 78, 97, 78, 46, 78, 97, 78>>)

(***************************************************************************)
(* The component's state and decodeId.                                     *)
(***************************************************************************)
VARIABLES
  inputId,           \* the text of the input field
  decodedId,         \* Null or the DecodedId record shown
  error,             \* NoError (null) or the message shown
  selectedTimezone,  \* "japan" or "local"
  now,               \* Null, or Some(value Date.now() returned) in the last decodeId call
  calls              \* the parsing and extraction functions the last decodeId call invoked, in order

vars == <<inputId, decodedId, error, selectedTimezone, now, calls>>

\* The state of the PDF merger page, a component of its own.
VARIABLES
  uploadedFiles,     \* the list of UploadedFile entries {file, id, name}
  pdfError,          \* the page's error: NoError (null) or the message shown
  lastCall,          \* the last handler of the page that was called, with its arguments
  isProcessing,      \* the page's isProcessing
  mergeJob,          \* Null, or the mergePdfs call in progress: the
                     \* uploadedFiles it was made with, the index of the
                     \* file of its loop, the promise it awaits and the
                     \* pages added to its mergedPdf
  mergedDownload     \* Null, or the pages of the file the last mergePdfs
                     \* call gave out by link.click(), by the files they
                     \* were copied from; the name the file is given,
                     \* generateFileName(outputFileName), is left out

pdfVars ==
  <<uploadedFiles, pdfError, lastCall, isProcessing, mergeJob, mergedDownload>>

\* The state of the JSON formatter page, a component of its own.
VARIABLES
  inputJson,         \* the text of the input area
  formattedJson,     \* the formatted text shown
  validationResult,  \* {isValid, error}: error is absent, or the parser's message
  indentSize,        \* the indent size selected: 2, 4 or 0
  jsonCall           \* the last handler of the page that was called

jsonVars == <<inputJson, formattedJson, validationResult, indentSize, jsonCall>>

\* The state of the split files page, a component of its own.
VARIABLES
  uploadedFile,      \* Null or the UploadedFile entry {file, id, name}
  splitIsProcessing, \* the page's isProcessing
  splitError,        \* the page's error: NoError (null) or the message shown
  splitOption,       \* {mode, numberOfFiles, numberOfLines}
  splitJob,          \* Null, or the uploadedFile and splitOption of the
                     \* processFile call that awaits the text of the file
  downloads          \* what the last processFile call gave out: the files
                     \* downloaded, or the tab opened

splitVars ==
  <<uploadedFile, splitIsProcessing, splitError, splitOption, splitJob,
    downloads>>

\* the state of the pages other than the decoder, than the PDF merger, than
\* the JSON formatter and than the split files page, and of all pages
decoderRest == <<pdfVars, jsonVars, splitVars>>

pdfRest == <<vars, jsonVars, splitVars>>

jsonRest == <<vars, pdfVars, splitVars>>

splitRest == <<vars, pdfVars, jsonVars>>

allVars == <<vars, pdfVars, jsonVars, splitVars>>

NoError == "null"

EmptyInputError == "Please enter an ID to decode"

InvalidFormatError ==
  "Invalid ID format. Please enter a valid decimal number or base-36 string"

OutOfRangeError ==
  "ID value is out of valid 64-bit range (must be between 0 and 9,223,372,036,854,775,807)"

DecodeFailedError == "Failed to decode ID. Please check the input format."

\* 2^64 - 1, the greatest unsigned 64-bit value
maxInt64_unsigned == BigSub(BigShl(FromInt(1), 64), FromInt(1))

\* 2^53 - 1, Number.MAX_SAFE_INTEGER
maxInt64_safeInteger == BigSub(BigShl(FromInt(1), 53), FromInt(1))

\* BigInt("9223372036854775807")
maxInt64 ==
  StringToBigInt(<<57, 50, 50, 51, 51, 55, 50, 48, 51, 54, 56, 53, 52, 55, 55,
                   53, 56, 48, 55>>)

\* the plausibility test with < in place of <=
isValidTimestamp_strict(timestamp, clock) ==
  /\ BigLess(TIMESTAMP_OFFSET, timestamp)
  /\ BigLess(timestamp, BigAdd(clock, FromInt(60000)))

\* line 152: timestamp > TIMESTAMP_OFFSET && timestamp <= now + 60000
isValidTimestamp(timestamp, clock) ==
  /\ BigLess(TIMESTAMP_OFFSET, timestamp)
  /\ BigLeq(timestamp, BigAdd(clock, FromInt(60000)))

Outcome(e, d, n, c) == [error |-> e, decodedId |-> d, now |-> n, calls |-> c]

\* the record with formattedTimestamp formatted from now, not from timestamp
ExtractComponents_formatsNow(trimmed, decimalValue, parser, timezone, clock) ==
  LET appId     == getAppId(decimalValue)
      clusterId == getClusterId(decimalValue)
      sequence  == getSequence(decimalValue)
      timestamp == getTimestamp(decimalValue)
      formattedTimestamp == formatTimestamp(clock, timezone)
      extraction == <<parser, "getAppId", "getClusterId", "getSequence",
                      "getTimestamp", "formatTimestamp">>
  IN  IF formattedTimestamp.isNull
      THEN Outcome(DecodeFailedError, Null, Null, extraction)
      ELSE Outcome(NoError,
                   [originalId         |-> trimmed,
                    decimalValue       |-> decimalValue,
                    appId              |-> appId,
                    clusterId          |-> clusterId,
                    sequence           |-> sequence,
                    timestamp          |-> timestamp,
                    formattedTimestamp |-> formattedTimestamp.val,
                    isValid            |-> isValidTimestamp(timestamp, clock)],
                   Some(clock), extraction \o <<"Date.now">>)

\* lines 143-166: the fields, the plausibility flag and the record
ExtractComponents(trimmed, decimalValue, parser, timezone, clock) ==
  LET appId     == getAppId(decimalValue)
      clusterId == getClusterId(decimalValue)
      sequence  == getSequence(decimalValue)
      timestamp == getTimestamp(decimalValue)
      formattedTimestamp == formatTimestamp(timestamp, timezone)
      extraction == <<parser, "getAppId", "getClusterId", "getSequence",
                      "getTimestamp", "formatTimestamp">>
  IN  IF formattedTimestamp.isNull
      THEN Outcome(DecodeFailedError, Null, Null, extraction)
      ELSE Outcome(NoError,
                   [originalId         |-> trimmed,
                    decimalValue       |-> decimalValue,
                    appId              |-> appId,
                    clusterId          |-> clusterId,
                    sequence           |-> sequence,
                    timestamp          |-> timestamp,
                    formattedTimestamp |-> formattedTimestamp.val,
                    isValid            |-> isValidTimestamp(timestamp, clock)],
                   Some(clock), extraction \o <<"Date.now">>)

\* the range check against 2^64 - 1
CheckRange_unsigned64(trimmed, parsed, parser, timezone, clock) ==
  IF parsed.isNull
  THEN Outcome(InvalidFormatError, Null, Null, <<parser>>)
  ELSE IF BigLess(maxInt64_unsigned, parsed.val)
  THEN Outcome(OutOfRangeError, Null, Null, <<parser>>)
  ELSE ExtractComponents(trimmed, parsed.val, parser, timezone, clock)

\* lines 129-141: the null check and the range check on the parsed value
CheckRange(trimmed, parsed, parser, timezone, clock) ==
  IF parsed.isNull
  THEN Outcome(InvalidFormatError, Null, Null, <<parser>>)
  ELSE IF BigLess(maxInt64, parsed.val)
  THEN Outcome(OutOfRangeError, Null, Null, <<parser>>)
  ELSE ExtractComponents(trimmed, parsed.val, parser, timezone, clock)

\* decodeId storing the input text as typed in originalId
DecodeOutcome_rawOriginal(input, timezone, clock) ==
  LET trimmed == Trim(input)
  IN  IF trimmed = << >>
      THEN Outcome(EmptyInputError, Null, Null, << >>)
      ELSE IF IsDecimalDigits(trimmed)
      THEN CheckRange(input, Some(StringToBigInt(trimmed)), "BigInt",
                      timezone, clock)
      ELSE CheckRange(input, decode36(ToLowerCase(trimmed)), "decode36",
                      timezone, clock)

\* What one decodeId call leaves in error and decodedId, for the input text,
\* the selected time zone and the value Date.now() returns if it is read.
\* A BigInt built here is never negative, so decimalValue < 0 is false.
DecodeOutcome(input, timezone, clock) ==
  LET trimmed == Trim(input)
  IN  IF trimmed = << >>
      THEN Outcome(EmptyInputError, Null, Null, << >>)
      ELSE IF IsDecimalDigits(trimmed)
      THEN CheckRange(trimmed, Some(StringToBigInt(trimmed)), "BigInt",
                      timezone, clock)
      ELSE CheckRange(trimmed, decode36(ToLowerCase(trimmed)), "decode36",
                      timezone, clock)

\* the PDF merger page after construction
InitPdf ==
  /\ uploadedFiles = << >>
  /\ pdfError = NoError
  /\ lastCall = [op |-> "none"]
  /\ isProcessing = FALSE
  /\ mergeJob = Null
  /\ mergedDownload = Null

\* the JSON formatter page after construction
InitJson ==
  /\ inputJson = << >>
  /\ formattedJson = << >>
  /\ validationResult = [isValid |-> TRUE]
  /\ indentSize = 2
  /\ jsonCall = "none"

\* the split files page after construction
InitSplit ==
  /\ uploadedFile = Null
  /\ splitIsProcessing = FALSE
  /\ splitError = NoError
  /\ splitOption = [mode |-> "split", numberOfFiles |-> 2, numberOfLines |-> 1000]
  /\ splitJob = Null
  /\ downloads = << >>

\* the pages after construction
Init ==
  /\ InitPdf
  /\ InitJson
  /\ InitSplit
  /\ inputId = << >>
  /\ decodedId = Null
  /\ error = NoError
  /\ selectedTimezone = "japan"
  /\ now = Null
  /\ calls = << >>

(***************************************************************************)
(* The values Date.now() may return and the texts the user may type.       *)
(***************************************************************************)
MaxNow == 1

MaxPad == 1

MaxZeros == 1

\* hi * 10^6 + lo
Millions(hi, lo) == BigAdd(BigMul(FromInt(hi), FromInt(1000000)), FromInt(lo))

\* 2026-11-03T05:00:00.000Z, and then every 1 h 59 min
NowAt(k) == BigAdd(Millions(1793682, 0), FromInt(k * 7140000))

Nows == {NowAt(k) : k \in 0..MaxNow}

\* the packing of the identifier layout: (delta << 23) | (sequence << 9) |
\* (clusterId << 7) | appId, on a delta given as a BigInt
Pack(appId, clusterId, sequence, delta) ==
  BigOr(BigOr(BigOr(BigShl(delta, 23), BigShl(FromInt(sequence), 9)),
              BigShl(FromInt(clusterId), 7)),
        FromInt(appId))

\* 2^40 - 1
MaxDelta == BigSub(BigShl(FromInt(1), 40), FromInt(1))

\* NowAt(0) - TIMESTAMP_OFFSET + ms: the delta of a timestamp ms after NowAt(0)
DeltaAhead(ms) == BigAdd(BigSub(NowAt(0), TIMESTAMP_OFFSET), FromInt(ms))

\* field values <<appId, clusterId, sequence, delta>>: each field at its
\* greatest value alone and together with others, the worked example of the
\* layout, and timestamps around the plausibility window of NowAt(0)
FieldTuples ==
  {<<0, 0, 0, << >> >>, <<127, 3, 16383, MaxDelta>>,
   <<127, 0, 0, << >> >>, <<0, 3, 0, << >> >>, <<0, 0, 16383, << >> >>,
   <<0, 0, 0, MaxDelta>>, <<127, 0, 16383, << >> >>, <<0, 3, 0, MaxDelta>>,
   <<5, 2, 100, FromInt(123456789)>>,
   <<1, 0, 0, FromInt(1)>>,
   <<64, 1, 8192, DeltaAhead(30000)>>,
   <<63, 2, 8191, DeltaAhead(60000)>>,
   <<85, 1, 5461, DeltaAhead(60001)>>,
   <<42, 2, 10922, DeltaAhead(7200000)>>}

PackedValues == {Pack(f[1], f[2], f[3], f[4]) : f \in FieldTuples}

\* 2^63, 2^64 - 1, 2^64 and 36^14 - 1: values past the range
LargeValues ==
  {BigShl(FromInt(1), 63),
   BigSub(BigShl(FromInt(1), 64), FromInt(1)),
   BigShl(FromInt(1), 64),
   BigSub(BigMul(BigMul(FromInt(36 ^ 5), FromInt(36 ^ 5)), FromInt(36 ^ 4)),
          FromInt(1))}

\* the values typed in base 36 too
Base36Values ==
  {Pack(f[1], f[2], f[3], f[4]) :
     f \in {<<127, 3, 16383, MaxDelta>>, <<5, 2, 100, FromInt(123456789)>>,
            <<63, 2, 8191, DeltaAhead(60000)>>, <<0, 3, 0, << >> >>}}

\* k white space code units: space, tab, no-break space, line feed, ...
WhiteSpaceUnits == <<32, 9, 160, 10>>

Blank(k) == [i \in 1..k |-> WhiteSpaceUnits[((i - 1) % 4) + 1]]

Zeros(k) == [i \in 1..k |-> 48]

DecimalTexts == {BigIntToString(v, 10) : v \in PackedValues \cup LargeValues}

UpperTexts == {encodeToBase36(v) : v \in Base36Values \cup LargeValues}

LowerTexts == {BigIntToString(v, 36) : v \in Base36Values}

\* "123456", "10", "Z", "z", "1A", "A1B2C3D4E5F"
PlainTexts ==
  {<<49, 50, 51, 52, 53, 54>>, <<49, 48>>, <<90>>, <<122>>, <<49, 65>>,
   <<65, 49, 66, 50, 67, 51, 68, 52, 69, 53, 70>>}

\* "12.34", "-5", "+5", "1 2", "é", U+212A (Kelvin sign), "1" U+212A,
\* U+0130, U+200B (zero width space, which is no white space)
OddTexts ==
  {<<49, 50, 46, 51, 52>>, <<45, 53>>, <<43, 53>>, <<49, 32, 50>>, <<233>>,
   <<8490>>, <<49, 8490>>, <<304>>, <<8203>>}

\* texts typed with white space before them, after them or around them: "",
\* "1035630607911173" and "1A"
PaddedTexts ==
  {Blank(l) \o t \o Blank(r) :
     l \in 0..MaxPad, r \in 0..MaxPad,
     t \in {<< >>, <<49, 48, 51, 53, 54, 51, 48, 54, 48, 55, 57, 49, 49, 49,
                     55, 51>>, <<49, 65>>}}

\* texts typed with leading zeros: "0", "123456" and 2^63 - 1
ZeroTexts ==
  {Zeros(k) \o t :
     k \in 0..MaxZeros,
     t \in {<<48>>, <<49, 50, 51, 52, 53, 54>>, BigIntToString(maxInt64, 10)}}

Inputs ==
  DecimalTexts \cup UpperTexts \cup LowerTexts \cup PlainTexts \cup OddTexts
    \cup PaddedTexts \cup ZeroTexts

(***************************************************************************)
(* The handlers.                                                           *)
(***************************************************************************)
\* onChange of the input field: setInputId(e.target.value)
setInputId(value) ==
  /\ inputId' = value
  /\ UNCHANGED <<decodedId, error, selectedTimezone, now, calls>>

\* decodeId that leaves the record shown in place when the call fails
decodeId_keepsRecord(clock) ==
  \E o \in {DecodeOutcome(inputId, selectedTimezone, clock)} :
    /\ error' = o.error
    /\ decodedId' = IF o.error = NoError THEN o.decodedId ELSE decodedId
    /\ now' = o.now
    /\ calls' = o.calls
    /\ UNCHANGED <<inputId, selectedTimezone>>

\* decodeId that sets the error for an empty text and leaves the record shown
decodeId_emptyKeepsRecord(clock) ==
  \E o \in {DecodeOutcome(inputId, selectedTimezone, clock)} :
    /\ error' = o.error
    /\ decodedId' = IF o.error = EmptyInputError THEN decodedId ELSE o.decodedId
    /\ now' = o.now
    /\ calls' = o.calls
    /\ UNCHANGED <<inputId, selectedTimezone>>

\* decodeId that does not reset the error when the call succeeds
decodeId_keepsError(clock) ==
  \E o \in {DecodeOutcome(inputId, selectedTimezone, clock)} :
    /\ error' = IF o.error = NoError THEN error ELSE o.error
    /\ decodedId' = o.decodedId
    /\ now' = o.now
    /\ calls' = o.calls
    /\ UNCHANGED <<inputId, selectedTimezone>>

\* decodeId, from the Decode button or the Enter key; clock is what
\* Date.now() returns in this call
decodeId(clock) ==
  \E o \in {DecodeOutcome(inputId, selectedTimezone, clock)} :
    /\ error' = o.error
    /\ decodedId' = o.decodedId
    /\ now' = o.now
    /\ calls' = o.calls
    /\ UNCHANGED <<inputId, selectedTimezone>>

\* clearAll, from the Clear button, which is rendered when inputId is not empty
clearAll ==
  /\ inputId # << >>
  /\ inputId' = << >>
  /\ decodedId' = Null
  /\ error' = NoError
  /\ UNCHANGED <<selectedTimezone, now, calls>>

\* handleTimezoneChange that selects the time zone and leaves the record as
\* it is
handleTimezoneChange_keepsText(timezone) ==
  /\ selectedTimezone' = timezone
  /\ UNCHANGED <<inputId, decodedId, error, now, calls>>

handleTimezoneChange(timezone) ==
  /\ selectedTimezone' = timezone
  /\ decodedId' =
       IF decodedId # Null
       THEN [decodedId EXCEPT
               !.formattedTimestamp =
                  formatTimestamp(decodedId.timestamp, timezone).val]
       ELSE decodedId
  /\ UNCHANGED <<inputId, error, now, calls>>

\* the time zone badge, rendered with the results, switches to the other zone
ToggleTimezone ==
  /\ decodedId # Null
  /\ handleTimezoneChange(IF selectedTimezone = "japan" THEN "local" ELSE "japan")

EditInput == \E value \in Inputs : setInputId(value)

Decode == \E clock \in Nows : decodeId(clock)

\* the decoder page is the one shown: the other pages keep their state
Next ==
  \/ EditInput /\ UNCHANGED decoderRest
  \/ Decode /\ UNCHANGED decoderRest
  \/ clearAll /\ UNCHANGED decoderRest
  \/ ToggleTimezone /\ UNCHANGED decoderRest

Spec == Init /\ [][Next]_allVars

(***************************************************************************)
(* The PDF merger page: the file list and its handlers.                    *)
(***************************************************************************)
MaxFiles == 3

MaxDrop == 2

PdfOnlyError == "Please upload PDF files only"

\* File objects: two PDF files and one the drop zone accepts by its
\* extension although its type is not application/pdf
Files ==
  {[name |-> "a.pdf", type |-> "application/pdf"],
   [name |-> "b.pdf", type |-> "application/pdf"],
   [name |-> "c.pdf", type |-> ""]}

\* what Math.random().toString(36).substr(2, 9) may return; two entries may
\* get the same id
Ids == {"k3x9q2m1a", "7f0zj4w8c"}

\* the lists of files one drop may accept
AcceptedFiles == UNION {[1..n -> Files] : n \in 0..MaxDrop}

IsPdf(file) == file.type = "application/pdf"

\* onDrop(acceptedFiles), ids being the ids Math.random() gives the new entries
onDrop(acceptedFiles, ids) ==
  LET pdfFiles == SelectSeq(acceptedFiles, IsPdf)
      newFiles == [i \in 1..Len(pdfFiles) |->
                     [file |-> pdfFiles[i], id |-> ids[i],
                      name |-> pdfFiles[i].name]]
  IN  /\ lastCall' = [op |-> "onDrop", accepted |-> Len(acceptedFiles)]
      /\ IF Len(pdfFiles) = 0
         THEN /\ pdfError' = PdfOnlyError
              /\ UNCHANGED uploadedFiles
         ELSE /\ pdfError' = NoError
              /\ uploadedFiles' = uploadedFiles \o newFiles
      /\ UNCHANGED <<isProcessing, mergeJob, mergedDownload>>

\* removeFile(id): prev.filter(file => file.id !== id)
removeFile(id) ==
  LET Keeps(file) == file.id # id
  IN  /\ uploadedFiles' = SelectSeq(uploadedFiles, Keeps)
      /\ lastCall' = [op |-> "removeFile", id |-> id]
      /\ UNCHANGED <<pdfError, isProcessing, mergeJob, mergedDownload>>

\* moveFile writing the neighbour over the entry without the exchange
moveFile_overwrites(index, direction) ==
  LET newIndex == IF direction = "up" THEN index - 1 ELSE index + 1
      newFiles == [uploadedFiles EXCEPT
                     ![index + 1] = uploadedFiles[newIndex + 1]]
  IN  /\ lastCall' = [op |-> "moveFile", index |-> index,
                      direction |-> direction]
      /\ uploadedFiles' =
           IF newIndex >= 0 /\ newIndex < Len(uploadedFiles)
           THEN newFiles ELSE uploadedFiles
      /\ UNCHANGED <<pdfError, isProcessing, mergeJob, mergedDownload>>

\* moveFile(index, direction); index counts from 0, the sequence from 1
moveFile(index, direction) ==
  LET newIndex == IF direction = "up" THEN index - 1 ELSE index + 1
      newFiles == [uploadedFiles EXCEPT
                     ![index + 1] = uploadedFiles[newIndex + 1],
                     ![newIndex + 1] = uploadedFiles[index + 1]]
  IN  /\ lastCall' = [op |-> "moveFile", index |-> index,
                      direction |-> direction]
      /\ uploadedFiles' =
           IF newIndex >= 0 /\ newIndex < Len(uploadedFiles)
           THEN newFiles ELSE uploadedFiles
      /\ UNCHANGED <<pdfError, isProcessing, mergeJob, mergedDownload>>

MergeEmptyError == "Please upload at least one PDF file"

MergeError == "Failed to merge PDF files. Please try again."

\* mergePdfs() up to its first await: the check of the list, and the call
\* left waiting for PDFDocument.create() with the uploadedFiles it was made
\* with.  The Merge button is disabled while isProcessing.
mergePdfs ==
  /\ ~isProcessing
  /\ lastCall' = [op |-> "mergePdfs", files |-> Len(uploadedFiles)]
  /\ IF Len(uploadedFiles) = 0
     THEN /\ pdfError' = MergeEmptyError
          /\ UNCHANGED <<isProcessing, mergeJob, mergedDownload>>
     ELSE /\ isProcessing' = TRUE
          /\ pdfError' = NoError
          /\ mergeJob' = Some([files |-> uploadedFiles, index |-> 0,
                               awaiting |-> "create", pages |-> << >>])
          /\ mergedDownload' = Null
  /\ UNCHANGED uploadedFiles

\* the call in progress going on with the file the list shows at its index
\* in the place of the file of its own list
mergePdfs_resolved_currentList ==
  /\ mergeJob # Null
  /\ \E job \in {mergeJob.val} :
       /\ lastCall' = [op |-> "mergePdfs", resolved |-> job.awaiting]
       /\ IF job.awaiting = "save"
          THEN /\ mergedDownload' = Some(job.pages)
               /\ isProcessing' = FALSE
               /\ mergeJob' = Null
          ELSE /\ mergeJob' = Some(
                    IF job.awaiting = "create"
                    THEN [job EXCEPT !.awaiting =
                            IF Len(job.files) = 0 THEN "save"
                            ELSE "arrayBuffer"]
                    ELSE IF job.awaiting = "arrayBuffer"
                    THEN [job EXCEPT !.awaiting = "load"]
                    ELSE IF job.awaiting = "load"
                    THEN [job EXCEPT !.awaiting = "copyPages"]
                    ELSE [job EXCEPT
                            !.pages = @ \o
                              (IF job.index < Len(uploadedFiles)
                               THEN <<uploadedFiles[job.index + 1].file>>
                               ELSE << >>),
                            !.index = @ + 1,
                            !.awaiting =
                              IF job.index + 1 < Len(job.files)
                              THEN "arrayBuffer" ELSE "save"])
               /\ UNCHANGED <<isProcessing, mergedDownload>>
  /\ UNCHANGED <<uploadedFiles, pdfError>>

\* mergePdfs() going on as the promise it awaits is resolved: create(), then
\* arrayBuffer(), load() and copyPages() for each file of the list the call
\* was made with, the pages being added after copyPages(), then save(), the
\* download and finally setIsProcessing(false)
mergePdfs_resolved ==
  /\ mergeJob # Null
  /\ \E job \in {mergeJob.val} :
       /\ lastCall' = [op |-> "mergePdfs", resolved |-> job.awaiting]
       /\ IF job.awaiting = "save"
          THEN /\ mergedDownload' = Some(job.pages)
               /\ isProcessing' = FALSE
               /\ mergeJob' = Null
          ELSE /\ mergeJob' = Some(
                    IF job.awaiting = "create"
                    THEN [job EXCEPT !.awaiting =
                            IF Len(job.files) = 0 THEN "save"
                            ELSE "arrayBuffer"]
                    ELSE IF job.awaiting = "arrayBuffer"
                    THEN [job EXCEPT !.awaiting = "load"]
                    ELSE IF job.awaiting = "load"
                    THEN [job EXCEPT !.awaiting = "copyPages"]
                    ELSE [job EXCEPT
                            !.pages = @ \o <<job.files[job.index + 1].file>>,
                            !.index = @ + 1,
                            !.awaiting =
                              IF job.index + 1 < Len(job.files)
                              THEN "arrayBuffer" ELSE "save"])
               /\ UNCHANGED <<isProcessing, mergedDownload>>
  /\ UNCHANGED <<uploadedFiles, pdfError>>

\* the catch block without the finally block
mergePdfs_rejected_noFinally ==
  /\ mergeJob # Null
  /\ lastCall' = [op |-> "mergePdfs", rejected |-> mergeJob.val.awaiting]
  /\ pdfError' = MergeError
  /\ mergeJob' = Null
  /\ UNCHANGED <<uploadedFiles, isProcessing, mergedDownload>>

\* mergePdfs() as the promise it awaits is rejected: the catch block and
\* finally setIsProcessing(false)
mergePdfs_rejected ==
  /\ mergeJob # Null
  /\ lastCall' = [op |-> "mergePdfs", rejected |-> mergeJob.val.awaiting]
  /\ pdfError' = MergeError
  /\ isProcessing' = FALSE
  /\ mergeJob' = Null
  /\ UNCHANGED <<uploadedFiles, mergedDownload>>

\* a drop of files, while the list stays within MaxFiles entries
Drop ==
  \E acceptedFiles \in AcceptedFiles :
    /\ Len(uploadedFiles) + Len(acceptedFiles) <= MaxFiles
    /\ \E ids \in [1..Len(SelectSeq(acceptedFiles, IsPdf)) -> Ids] :
         onDrop(acceptedFiles, ids)

\* the x button of a row of the list
Remove == \E i \in 1..Len(uploadedFiles) : removeFile(uploadedFiles[i].id)

\* the arrow buttons of a row of the list.  The up button of the first row
\* and the down button of the last one are disabled; moveFile leaves the list
\* as it is for them.
Move ==
  \E index \in 0..(Len(uploadedFiles) - 1) :
    \E direction \in {"up", "down"} : moveFile(index, direction)

\* the PDF merger page is the one shown and its list is edited: the other
\* pages keep their state
NextPdf ==
  \/ Drop /\ UNCHANGED pdfRest
  \/ Remove /\ UNCHANGED pdfRest
  \/ Move /\ UNCHANGED pdfRest

SpecPdf == Init /\ [][NextPdf]_allVars

MaxMergeFiles == 2

\* a drop of files on a page that merges, while the list stays within
\* MaxMergeFiles entries
MergeDrop ==
  \E acceptedFiles \in AcceptedFiles :
    /\ Len(uploadedFiles) + Len(acceptedFiles) <= MaxMergeFiles
    /\ \E ids \in [1..Len(SelectSeq(acceptedFiles, IsPdf)) -> Ids] :
         onDrop(acceptedFiles, ids)

\* the promise a mergePdfs call awaits is settled
MergeContinues ==
  \/ mergePdfs_resolved
  \/ mergePdfs_rejected

\* the PDF merger page is the one shown, its list is edited and merged, the
\* list being edited while a merge is in progress as well
NextMerge ==
  \/ MergeDrop /\ UNCHANGED pdfRest
  \/ Remove /\ UNCHANGED pdfRest
  \/ Move /\ UNCHANGED pdfRest
  \/ mergePdfs /\ UNCHANGED pdfRest
  \/ MergeContinues /\ UNCHANGED pdfRest

SpecMerge == Init /\ [][NextMerge]_allVars

\* every promise a mergePdfs call awaits is settled in the end
SpecMergeFair == SpecMerge /\ WF_allVars(MergeContinues /\ UNCHANGED pdfRest)

(***************************************************************************)
(* The JSON formatter page.  JSON.parse and JSON.stringify are modelled on *)
(* the texts of a fragment of JSON: non-negative integers, strings without *)
(* escapes, true, false, null, arrays and objects whose keys are not       *)
(* integers, with white space anywhere JSON allows it.  A value is a       *)
(* record with its type.                                                   *)
(***************************************************************************)
JsonWhiteSpace == {32, 9, 10, 13}

RECURSIVE SkipWhiteSpace(_, _)
SkipWhiteSpace(s, i) ==
  IF i <= Len(s) /\ s[i] \in JsonWhiteSpace THEN SkipWhiteSpace(s, i + 1) ELSE i

NoParse == [ok |-> FALSE]

Parsed(v, next) == [ok |-> TRUE, value |-> v, next |-> next]

\* the end of the run of digits that starts at i
RECURSIVE DigitsEnd(_, _)
DigitsEnd(s, i) ==
  IF i <= Len(s) /\ s[i] >= 48 /\ s[i] <= 57 THEN DigitsEnd(s, i + 1) ELSE i

RECURSIVE DigitsValue(_, _, _, _)
DigitsValue(s, i, end, acc) ==
  IF i >= end THEN acc ELSE DigitsValue(s, i + 1, end, acc * 10 + (s[i] - 48))

\* a number at i: 0, or a digit 1-9 and more digits
ParseNumber(s, i) ==
  IF s[i] = 48 THEN Parsed([type |-> "number", value |-> 0], i + 1)
  ELSE LET end == DigitsEnd(s, i)
       IN  Parsed([type |-> "number", value |-> DigitsValue(s, i, end, 0)], end)

\* the place of the quote that closes the string opened before i, 0 when a
\* control character, a backslash or the end of the text comes first
RECURSIVE StringEnd(_, _)
StringEnd(s, i) ==
  IF i > Len(s) \/ s[i] < 32 \/ s[i] = 92 THEN 0
  ELSE IF s[i] = 34 THEN i
  ELSE StringEnd(s, i + 1)

\* a string at i, where s[i] is the quote
ParseString(s, i) ==
  LET end == StringEnd(s, i + 1)
  IN  IF end = 0 THEN NoParse
      ELSE Parsed([type |-> "string", chars |-> SubSeq(s, i + 1, end - 1)],
                  end + 1)

\* true, false or null at i
ParseLiteral(s, i) ==
  LET Matches(word) ==
        i + Len(word) - 1 <= Len(s) /\ SubSeq(s, i, i + Len(word) - 1) = word
  IN  IF Matches(<<116, 114, 117, 101>>)
      THEN Parsed([type |-> "literal", chars |-> <<116, 114, 117, 101>>], i + 4)
      ELSE IF Matches(<<102, 97, 108, 115, 101>>)
      THEN Parsed([type |-> "literal", chars |-> <<102, 97, 108, 115, 101>>],
                  i + 5)
      ELSE IF Matches(<<110, 117, 108, 108>>)
      THEN Parsed([type |-> "literal", chars |-> <<110, 117, 108, 108>>], i + 4)
      ELSE NoParse

\* the members with the value of key set: a key met again keeps its place
\* and takes the new value
PutMember(members, key, v) ==
  IF \E k \in 1..Len(members) : members[k].key = key
  THEN [k \in 1..Len(members) |->
          IF members[k].key = key THEN [key |-> key, value |-> v]
          ELSE members[k]]
  ELSE Append(members, [key |-> key, value |-> v])

\* a value at i, the first place after the white space before it
RECURSIVE ParseValue(_, _)
RECURSIVE ParseElements(_, _, _)
RECURSIVE ParseMembers(_, _, _)
ParseValue(s, i) ==
  IF i > Len(s) THEN NoParse
  ELSE IF s[i] = 91
  THEN LET j == SkipWhiteSpace(s, i + 1)
       IN  IF j <= Len(s) /\ s[j] = 93
           THEN Parsed([type |-> "array", items |-> << >>], j + 1)
           ELSE ParseElements(s, j, << >>)
  ELSE IF s[i] = 123
  THEN LET j == SkipWhiteSpace(s, i + 1)
       IN  IF j <= Len(s) /\ s[j] = 125
           THEN Parsed([type |-> "object", members |-> << >>], j + 1)
           ELSE ParseMembers(s, j, << >>)
  ELSE IF s[i] = 34 THEN ParseString(s, i)
  ELSE IF s[i] >= 48 /\ s[i] <= 57 THEN ParseNumber(s, i)
  ELSE ParseLiteral(s, i)

\* the elements of an array from i on, after the ones in items: a value,
\* then a comma and more, or the closing bracket
ParseElements(s, i, items) ==
  LET v == ParseValue(s, i)
  IN  IF ~v.ok THEN NoParse
      ELSE LET k == SkipWhiteSpace(s, v.next)
           IN  IF k > Len(s) THEN NoParse
               ELSE IF s[k] = 44
               THEN ParseElements(s, SkipWhiteSpace(s, k + 1),
                                  Append(items, v.value))
               ELSE IF s[k] = 93
               THEN Parsed([type |-> "array", items |-> Append(items, v.value)],
                           k + 1)
               ELSE NoParse

\* the members of an object from i on, after the ones in members: a string,
\* a colon and a value, then a comma and more, or the closing brace
ParseMembers(s, i, members) ==
  IF i > Len(s) \/ s[i] # 34 THEN NoParse
  ELSE LET key == ParseString(s, i)
       IN  IF ~key.ok THEN NoParse
           ELSE LET c == SkipWhiteSpace(s, key.next)
                IN  IF c > Len(s) \/ s[c] # 58 THEN NoParse
                    ELSE LET v == ParseValue(s, SkipWhiteSpace(s, c + 1))
                         IN  IF ~v.ok THEN NoParse
                             ELSE LET k == SkipWhiteSpace(s, v.next)
                                      put == PutMember(members, key.value.chars,
                                                       v.value)
                                  IN  IF k > Len(s) THEN NoParse
                                      ELSE IF s[k] = 44
                                      THEN ParseMembers(
                                             s, SkipWhiteSpace(s, k + 1), put)
                                      ELSE IF s[k] = 125
                                      THEN Parsed([type |-> "object",
                                                   members |-> put], k + 1)
                                      ELSE NoParse

\* JSON.parse(text): the value, or not ok where JSON.parse throws
JsonParse(text) ==
  LET r == ParseValue(text, SkipWhiteSpace(text, 1))
  IN  IF r.ok /\ SkipWhiteSpace(text, r.next) > Len(text)
      THEN [ok |-> TRUE, value |-> r.value]
      ELSE NoParse

Spaces(n) == [i \in 1..n |-> 32]

\* the parts with sep between them
RECURSIVE Join(_, _)
Join(parts, sep) ==
  IF parts = << >> THEN << >>
  ELSE IF Len(parts) = 1 THEN parts[1]
  ELSE parts[1] \o sep \o Join(Tail(parts), sep)

\* the serialization of JSON.stringify: gap is the indentation of one level,
\* indent the indentation of the value's own line
RECURSIVE Serialize(_, _, _)
Serialize(v, gap, indent) ==
  LET inner == indent \o gap
      Wrap(open, parts, close) ==
        IF parts = << >> THEN <<open, close>>
        ELSE IF gap = << >> THEN <<open>> \o Join(parts, <<44>>) \o <<close>>
        ELSE <<open, 10>> \o inner \o Join(parts, <<44, 10>> \o inner)
               \o <<10>> \o indent \o <<close>>
  IN  CASE v.type = "number" -> IntToString(v.value)
        [] v.type = "string" -> <<34>> \o v.chars \o <<34>>
        [] v.type = "literal" -> v.chars
        [] v.type = "array" ->
             Wrap(91, [k \in 1..Len(v.items) |-> Serialize(v.items[k], gap, inner)],
                  93)
        [] v.type = "object" ->
             Wrap(123,
                  [k \in 1..Len(v.members) |->
                     <<34>> \o v.members[k].key \o <<34, 58>>
                       \o (IF gap = << >> THEN << >> ELSE <<32>>)
                       \o Serialize(v.members[k].value, gap, inner)],
                  125)

\* JSON.stringify(value, null, indent) for an indent of 0 to 10
JsonStringify(value, indent) == Serialize(value, Spaces(indent), << >>)

\* what validateAndFormatJson(jsonString) sets, in a render where the indent
\* size selected is indent and the formatted text shown is formatted.  The
\* error of a text JSON.parse refuses is the parser's message, which depends
\* on the engine: "SyntaxError" stands for it.
validateAndFormatJson(jsonString, indent, formatted) ==
  IF Trim(jsonString) = << >>
  THEN [formattedJson |-> << >>, validationResult |-> [isValid |-> TRUE]]
  ELSE LET parsedJson == JsonParse(jsonString)
       IN  IF parsedJson.ok
           THEN [formattedJson |-> JsonStringify(parsedJson.value, indent),
                 validationResult |-> [isValid |-> TRUE]]
           ELSE [formattedJson |-> formatted,
                 validationResult |->
                   [isValid |-> FALSE, error |-> "SyntaxError"]]

\* the texts typed or pasted: "", " ", "1", "[1,2]", {"a":[1,2]},
\* {"a":1,"a":2}, [1,2] formatted with 4 spaces, and the broken "[1," and
\* {"a" 1}
JsonInputs ==
  {<< >>,
   <<32>>,
   <<49>>,
   <<91, 49, 44, 50, 93>>,
   <<123, 34, 97, 34, 58, 91, 49, 44, 50, 93, 125>>,
   <<123, 34, 97, 34, 58, 49, 44, 34, 97, 34, 58, 50, 125>>,
   <<91, 10, 32, 32, 32, 32, 49, 44, 10, 32, 32, 32, 32, 50, 10, 93>>,
   <<91, 49, 44>>,
   <<123, 34, 97, 34, 32, 49, 125>>}

\* the options of the indent size select
IndentSizes == {2, 4, 0}

handleInputChange(value) ==
  \E r \in {validateAndFormatJson(value, indentSize, formattedJson)} :
    /\ inputJson' = value
    /\ formattedJson' = r.formattedJson
    /\ validationResult' = r.validationResult
    /\ jsonCall' = "handleInputChange"
    /\ UNCHANGED indentSize

\* handleIndentSizeChange.  validateAndFormatJson is the function of the
\* render in which the select was changed (useCallback on indentSize): it
\* formats with the indent size of that render, the one selected before.
handleIndentSizeChange(size) ==
  /\ indentSize' = size
  /\ jsonCall' = "handleIndentSizeChange"
  /\ IF Trim(inputJson) # << >>
     THEN \E r \in {validateAndFormatJson(inputJson, indentSize, formattedJson)} :
            /\ formattedJson' = r.formattedJson
            /\ validationResult' = r.validationResult
     ELSE UNCHANGED <<formattedJson, validationResult>>
  /\ UNCHANGED inputJson

\* clearAll of the JSON formatter
jsonClearAll ==
  /\ inputJson' = << >>
  /\ formattedJson' = << >>
  /\ validationResult' = [isValid |-> TRUE]
  /\ jsonCall' = "clearAll"
  /\ UNCHANGED indentSize

formatFromCurrentInput ==
  /\ jsonCall' = "formatFromCurrentInput"
  /\ IF Trim(inputJson) # << >>
     THEN \E r \in {validateAndFormatJson(inputJson, indentSize, formattedJson)} :
            /\ formattedJson' = r.formattedJson
            /\ validationResult' = r.validationResult
     ELSE UNCHANGED <<formattedJson, validationResult>>
  /\ UNCHANGED <<inputJson, indentSize>>

minifyJson ==
  /\ jsonCall' = "minifyJson"
  /\ \E parsedJson \in {IF Trim(inputJson) # << >> THEN JsonParse(inputJson)
                        ELSE NoParse} :
       IF parsedJson.ok
       THEN \E minified \in {JsonStringify(parsedJson.value, 0)} :
              /\ inputJson' = minified
              /\ formattedJson' = minified
              /\ validationResult' = [isValid |-> TRUE]
       ELSE UNCHANGED <<inputJson, formattedJson, validationResult>>
  /\ UNCHANGED indentSize

EditJson == \E value \in JsonInputs : handleInputChange(value)

\* the select fires onChange for another option than the one selected
SelectIndent ==
  \E size \in IndentSizes \ {indentSize} : handleIndentSizeChange(size)

\* the JSON formatter page is the one shown: the other pages keep their state
NextJson ==
  \/ EditJson /\ UNCHANGED jsonRest
  \/ SelectIndent /\ UNCHANGED jsonRest
  \/ jsonClearAll /\ UNCHANGED jsonRest
  \/ formatFromCurrentInput /\ UNCHANGED jsonRest
  \/ minifyJson /\ UNCHANGED jsonRest

SpecJson == Init /\ [][NextJson]_allVars

(***************************************************************************)
(* The split files page: one uploaded text file, the split options and     *)
(* processFile, which awaits the text of the file and then gives out the   *)
(* parts.                                                                  *)
(***************************************************************************)
MIN_NUMBER_OF_FILES == 2

MAX_NUMBER_OF_FILES == 100

MAX_NUMBER_OF_LINES == 100000

UploadFileError == "Please upload a file"

UploadFirstError == "Please upload a file first"

NumberOfFilesError == "Please enter a valid number of files (2-100)"

NumberOfLinesError == "Please enter a valid number of lines (1-100000)"

NewTabError == "Failed to open new tab. Please check your browser settings."

ProcessError == "Failed to process file. Please try again."

LineFeed == 10

FullStop == 46

\* String.prototype.split(sep) for a separator of one code unit
RECURSIVE Split(_, _)
Split(text, sep) ==
  IF \A i \in 1..Len(text) : text[i] # sep THEN <<text>>
  ELSE LET first == CHOOSE i \in 1..Len(text) :
                      text[i] = sep /\ \A j \in 1..(i - 1) : text[j] # sep
       IN  <<SubSeq(text, 1, first - 1)>>
             \o Split(SubSeq(text, first + 1, Len(text)), sep)

\* Array.prototype.slice(start, end) for 0 <= start and 0 <= end
Slice(array, start, end) ==
  LET last == IF end < Len(array) THEN end ELSE Len(array)
  IN  IF start < last THEN SubSeq(array, start + 1, last) ELSE << >>

\* Array.prototype.slice(-count) for count > 0
SliceLast(array, count) ==
  Slice(array, IF count < Len(array) THEN Len(array) - count ELSE 0,
        Len(array))

\* String.prototype.lastIndexOf('.'), -1 without one
LastIndexOfFullStop(name) ==
  LET at == {i \in 1..Len(name) : name[i] = FullStop}
  IN  IF at = {} THEN -1
      ELSE (CHOOSE i \in at : \A j \in at : j <= i) - 1

\* name.replace(/\.[^/.]+$/, ''): the name without its last full stop and
\* what follows, where something without a slash follows
BaseName(name) ==
  LET dot == LastIndexOfFullStop(name)
  IN  IF dot >= 0 /\ dot + 1 < Len(name)
         /\ \A i \in (dot + 2)..Len(name) : name[i] # 47
      THEN SubSeq(name, 1, dot) ELSE name

\* name.substring(name.lastIndexOf('.')): substring(-1) is the whole name
Extension(name) ==
  LET dot == LastIndexOfFullStop(name)
  IN  SubSeq(name, (IF dot < 0 THEN 0 ELSE dot) + 1, Len(name))

\* replace(/</g, '&lt;').replace(/>/g, '&gt;')
RECURSIVE EscapeHtml(_)
EscapeHtml(text) ==
  IF text = << >> THEN << >>
  ELSE (IF Head(text) = 60 THEN <<38, 108, 116, 59>>
        ELSE IF Head(text) = 62 THEN <<38, 103, 116, 59>>
        ELSE <<Head(text)>>) \o EscapeHtml(Tail(text))

\* parseInt(value) || 0 for a value of decimal digits
RECURSIVE ParseInt(_)
ParseInt(value) ==
  IF value = << >> THEN 0
  ELSE 10 * ParseInt(SubSeq(value, 1, Len(value) - 1))
         + (value[Len(value)] - 48)

\* Math.ceil(a / b) for a >= 0 and b > 0
Ceil(a, b) == IF a % b = 0 THEN a \div b ELSE (a \div b) + 1

\* the loop of the split mode with Math.floor in the place of Math.ceil
SplitParts_floor(name, lines, numFiles) ==
  LET linesPerFile == Len(lines) \div numFiles
  IN  [k \in 1..numFiles |->
         LET i == k - 1
             startIndex == i * linesPerFile
             endIndex == IF startIndex + linesPerFile < Len(lines)
                         THEN startIndex + linesPerFile ELSE Len(lines)
             fileLines == Slice(lines, startIndex, endIndex)
         IN  [download |-> BaseName(name) \o <<95>>
                             \o PadStart(IntToString(i + 1), 2)
                             \o Extension(name),
              content |-> Join(fileLines, <<LineFeed>>),
              fileLines |-> fileLines]]

\* the loop of the split mode: the files given out, in the order of their
\* link.click(), each with the lines it was joined from
SplitParts(name, lines, numFiles) ==
  LET linesPerFile == Ceil(Len(lines), numFiles)
  IN  [k \in 1..numFiles |->
         LET i == k - 1
             startIndex == i * linesPerFile
             endIndex == IF startIndex + linesPerFile < Len(lines)
                         THEN startIndex + linesPerFile ELSE Len(lines)
             fileLines == Slice(lines, startIndex, endIndex)
         IN  [download |-> BaseName(name) \o <<95>>
                             \o PadStart(IntToString(i + 1), 2)
                             \o Extension(name),
              content |-> Join(fileLines, <<LineFeed>>),
              fileLines |-> fileLines]]

\* the lastLines mode: the page written to the new tab, by the values the
\* template is filled with
LastLinesTab(name, lines, numberOfLines) ==
  LET numLines == IF numberOfLines = 0 THEN 1000 ELSE numberOfLines
      lastLines == SliceLast(lines, numLines)
      extractedContent == Join(lastLines, <<LineFeed>>)
  IN  <<[title |-> Len(lastLines),
         source |-> name,
         pre |-> EscapeHtml(extractedContent),
         download |-> BaseName(name) \o <<95, 108, 97, 115, 116, 95>>
                        \o IntToString(numLines)
                        \o <<95, 108, 105, 110, 101, 115, 46, 116, 120, 116>>,
         fileLines |-> lastLines]>>

\* File objects: log.txt of five lines, a.csv of four lines, two of them
\* empty, and notes, empty and without an extension
SplitFiles ==
  {[name |-> <<108, 111, 103, 46, 116, 120, 116>>,
    text |-> <<97, 10, 98, 10, 99, 10, 100, 10, 101>>],
   [name |-> <<97, 46, 99, 115, 118>>,
    text |-> <<120, 60, 49, 10, 10, 121, 62, 50, 10>>],
   [name |-> <<110, 111, 116, 101, 115>>,
    text |-> << >>]}

\* what is typed into the number of files: nothing, 1, 2, 3, 100, 101, 2a
NumberOfFilesTexts ==
  {<< >>, <<49>>, <<50>>, <<51>>, <<49, 48, 48>>, <<49, 48, 49>>, <<50, 97>>}

\* what is typed into the number of lines: nothing, 2, 100001
NumberOfLinesTexts == {<< >>, <<50>>, <<49, 48, 48, 48, 48, 49>>}

\* onDrop(acceptedFiles) of the split files page, id being what
\* Math.random() gives the entry
splitOnDrop(acceptedFiles, id) ==
  /\ IF Len(acceptedFiles) = 0
     THEN /\ splitError' = UploadFileError
          /\ UNCHANGED uploadedFile
     ELSE /\ splitError' = NoError
          /\ uploadedFile' = Some([file |-> acceptedFiles[1], id |-> id,
                                   name |-> acceptedFiles[1].name])
  /\ UNCHANGED <<splitIsProcessing, splitOption, splitJob, downloads>>

\* removeFile() of the split files page
splitRemoveFile ==
  /\ uploadedFile' = Null
  /\ UNCHANGED <<splitIsProcessing, splitError, splitOption, splitJob,
                 downloads>>

\* the onChange of the two radio buttons
setMode(mode) ==
  /\ splitOption' = [splitOption EXCEPT !.mode = mode]
  /\ UNCHANGED <<uploadedFile, splitIsProcessing, splitError, splitJob,
                 downloads>>

\* handleNumberInputChange(e, field), value being e.target.value
handleNumberInputChange(value, field) ==
  /\ splitOption' =
       IF value = << >> \/ \A i \in 1..Len(value) : value[i] \in 48..57
       THEN [splitOption EXCEPT ![field] = ParseInt(value)]
       ELSE splitOption
  /\ UNCHANGED <<uploadedFile, splitIsProcessing, splitError, splitJob,
                 downloads>>

\* processFile() up to its await: the checks, and the call left waiting for
\* the text of the file with the uploadedFile and splitOption it was made
\* with
processFile ==
  /\ ~splitIsProcessing
  /\ IF uploadedFile = Null
     THEN /\ splitError' = UploadFirstError
          /\ UNCHANGED <<splitIsProcessing, splitJob, downloads>>
     ELSE IF /\ splitOption.mode = "split"
             /\ \/ splitOption.numberOfFiles = 0
                \/ splitOption.numberOfFiles < MIN_NUMBER_OF_FILES
                \/ splitOption.numberOfFiles > MAX_NUMBER_OF_FILES
     THEN /\ splitError' = NumberOfFilesError
          /\ UNCHANGED <<splitIsProcessing, splitJob, downloads>>
     ELSE IF /\ splitOption.mode = "lastLines"
             /\ \/ splitOption.numberOfLines = 0
                \/ splitOption.numberOfLines < 1
                \/ splitOption.numberOfLines > MAX_NUMBER_OF_LINES
     THEN /\ splitError' = NumberOfLinesError
          /\ UNCHANGED <<splitIsProcessing, splitJob, downloads>>
     ELSE /\ splitIsProcessing' = TRUE
          /\ splitError' = NoError
          /\ splitJob' = Some([uploadedFile |-> uploadedFile.val,
                               splitOption |-> splitOption])
          /\ downloads' = << >>
  /\ UNCHANGED <<uploadedFile, splitOption>>

\* processFile() from its await on, the text of the file being read: the
\* parts are given out, or the tab is opened (opened) or refused
processFile_resolved(opened) ==
  /\ splitJob # Null
  /\ LET job == splitJob.val
         lines == Split(job.uploadedFile.file.text, LineFeed)
     IN  IF job.splitOption.mode = "split"
         THEN /\ downloads' =
                   SplitParts(job.uploadedFile.name, lines,
                              IF job.splitOption.numberOfFiles = 0 THEN 2
                              ELSE job.splitOption.numberOfFiles)
              /\ UNCHANGED splitError
         ELSE IF opened
         THEN /\ downloads' = LastLinesTab(job.uploadedFile.name, lines,
                                           job.splitOption.numberOfLines)
              /\ UNCHANGED splitError
         ELSE /\ splitError' = NewTabError
              /\ UNCHANGED downloads
  /\ splitIsProcessing' = FALSE
  /\ splitJob' = Null
  /\ UNCHANGED <<uploadedFile, splitOption>>

\* processFile() from its await on, file.text() being rejected
processFile_rejected ==
  /\ splitJob # Null
  /\ splitError' = ProcessError
  /\ splitIsProcessing' = FALSE
  /\ splitJob' = Null
  /\ UNCHANGED <<uploadedFile, splitOption, downloads>>

\* a drop on the zone, which takes one file at most
SplitDrop ==
  \E acceptedFiles \in {<< >>} \cup {<<file>> : file \in SplitFiles} :
    \E id \in Ids : splitOnDrop(acceptedFiles, id)

\* the x button of the file; the Clear File button does the same and is
\* disabled while a file is processed, the x button is not
SplitRemove == uploadedFile # Null /\ splitRemoveFile

SelectMode == \E mode \in {"split", "lastLines"} \ {splitOption.mode} : setMode(mode)

\* the number input of the mode selected is the one shown
TypeNumber ==
  \/ /\ splitOption.mode = "split"
     /\ \E value \in NumberOfFilesTexts :
          handleNumberInputChange(value, "numberOfFiles")
  \/ /\ splitOption.mode = "lastLines"
     /\ \E value \in NumberOfLinesTexts :
          handleNumberInputChange(value, "numberOfLines")

\* the text of the file is read, or reading it fails
ProcessFileContinues ==
  \/ \E opened \in BOOLEAN : processFile_resolved(opened)
  \/ processFile_rejected

\* the split files page is the one shown: the other pages keep their state
NextSplit ==
  \/ SplitDrop /\ UNCHANGED splitRest
  \/ SplitRemove /\ UNCHANGED splitRest
  \/ SelectMode /\ UNCHANGED splitRest
  \/ TypeNumber /\ UNCHANGED splitRest
  \/ processFile /\ UNCHANGED splitRest
  \/ ProcessFileContinues /\ UNCHANGED splitRest

SpecSplit == Init /\ [][NextSplit]_allVars

(***************************************************************************)
(* Properties.  The values of the statements are computed here from the    *)
(* text or from the raw value by division and remainder, not by the        *)
(* decoder's parsers, shifts and masks.                                    *)
(***************************************************************************)
Digits == 48..57

Alnum == Digits \cup (65..90) \cup (97..122)

AllIn(s, units) == \A i \in 1..Len(s) : s[i] \in units

DigitValue(c) ==
  IF c \in Digits THEN c - 48
  ELSE IF c \in 65..90 THEN c - 65 + 10
  ELSE c - 97 + 10

\* the value of the digits s in the radix: the sum of digit * radix^k over
\* the positions k, counted from the last digit
RECURSIVE RadixSum(_, _, _, _, _)
RadixSum(s, radix, i, power, acc) ==
  IF Len(power) >= 0 /\ Len(acc) >= 0 /\ i = 0 THEN acc
  ELSE RadixSum(s, radix, i - 1, BigMul(power, FromInt(radix)),
                BigAdd(acc, BigMul(power, FromInt(DigitValue(s[i])))))

RadixValue(s, radix) == RadixSum(s, radix, Len(s), FromInt(1), << >>)

\* the value of a non-empty text of digits and letters under the dispatch
\* rule: base 10 when all are digits, base 36 otherwise
TextValue(t) == IF AllIn(t, Digits) THEN RadixValue(t, 10) ELSE RadixValue(t, 36)

HasValue(t) == t # << >> /\ AllIn(t, Alnum)

TwoTo63Minus1 == BigSub(BigShl(FromInt(1), 63), FromInt(1))

EpochOffset == Millions(1451574, 0)

ExtractionCalls ==
  {"getAppId", "getClusterId", "getSequence", "getTimestamp", "formatTimestamp"}

Called(c) == {c[i] : i \in 1..Len(c)}

RecordFields ==
  {"originalId", "decimalValue", "appId", "clusterId", "sequence", "timestamp",
   "formattedTimestamp", "isValid"}

\* a step of decodeId: of the steps of Next that change the state, the ones
\* that change neither the input text nor the time zone
DecodeStep == inputId' = inputId /\ selectedTimezone' = selectedTimezone

\* C1: re-packing the fields of a decoded record gives its raw value back:
\* ((timestamp - TIMESTAMP_OFFSET) << 23) | (sequence << 9) | (clusterId << 7)
\* | appId = decimalValue.
C1_RepackGivesRawValue ==
  decodedId # Null =>
    Pack(decodedId.appId, decodedId.clusterId, decodedId.sequence,
         BigSub(decodedId.timestamp, EpochOffset)) = decodedId.decimalValue

\* a record of 2^63 - 1, every field at its greatest value
C1_Witness ==
  /\ decodedId # Null
  /\ decodedId.decimalValue = TwoTo63Minus1
  /\ decodedId.appId = 127 /\ decodedId.clusterId = 3
  /\ decodedId.sequence = 16383

\* C2: decoding the packing of appId, clusterId, sequence and delta returns
\* exactly these four, the timestamp being delta + 1451574000000.
C2_DecodeOfPack ==
  decodedId # Null =>
    \A f \in FieldTuples :
      decodedId.decimalValue = Pack(f[1], f[2], f[3], f[4]) =>
        /\ decodedId.appId = f[1]
        /\ decodedId.clusterId = f[2]
        /\ decodedId.sequence = f[3]
        /\ decodedId.timestamp = BigAdd(f[4], EpochOffset)

\* the record of the packing of <<127, 0, 16383, 0>>: a clusterId of 0 between
\* two fields of ones
C2_Witness ==
  /\ decodedId # Null
  /\ decodedId.decimalValue = Pack(127, 0, 16383, << >>)
  /\ decodedId.clusterId = 0

\* C3: appId = v mod 2^7, clusterId = (v div 2^7) mod 2^2, sequence =
\* (v div 2^9) mod 2^14, timestamp = (v div 2^23) + 1451574000000; the value
\* 1035630607911173 gives 5, 2, 100 and 1451697456789.
C3_FieldsOfRawValue ==
  decodedId # Null =>
    LET v == decodedId.decimalValue
    IN  /\ decodedId.appId = BigDivMod(v, 2 ^ 7).r
        /\ decodedId.clusterId = BigDivMod(BigDivMod(v, 2 ^ 7).q, 2 ^ 2).r
        /\ decodedId.sequence = BigDivMod(BigDivMod(v, 2 ^ 9).q, 2 ^ 14).r
        /\ decodedId.timestamp =
             BigAdd(BigDivMod(BigDivMod(v, 2 ^ 12).q, 2 ^ 11).q, EpochOffset)
        /\ (v = Millions(1035630607, 911173) =>
              /\ decodedId.appId = 5 /\ decodedId.clusterId = 2
              /\ decodedId.sequence = 100
              /\ decodedId.timestamp = Millions(1451697, 456789))

\* the record of 1035630607911173
C3_Witness ==
  /\ decodedId # Null
  /\ decodedId.decimalValue = Millions(1035630607, 911173)
  /\ decodedId.sequence = 100

\* C4: a decodeId call on a text whose value is above 2^63 - 1 ends with the
\* out-of-range error, no record and no extraction call; on a text of value
\* 2^63 - 1 it ends with a record.
C4_OutOfRange ==
  [][DecodeStep =>
       \A t \in {Trim(inputId)} :
         HasValue(t) =>
           \A v \in {TextValue(t)} :
             /\ (BigLess(TwoTo63Minus1, v) =>
                   /\ error' = OutOfRangeError
                   /\ decodedId' = Null
                   /\ Called(calls') \cap ExtractionCalls = {})
             /\ (v = TwoTo63Minus1 =>
                   /\ error' = NoError
                   /\ decodedId' # Null
                   /\ decodedId'.decimalValue = TwoTo63Minus1)]_vars

\* "9223372036854775808" has been refused
C4_Witness ==
  /\ inputId = <<57, 50, 50, 51, 51, 55, 50, 48, 51, 54, 56, 53, 52, 55, 55, 53,
                 56, 48, 56>>
  /\ error = OutOfRangeError
  /\ decodedId = Null
  /\ calls = <<"BigInt">>

\* C5: a decodeId call on a text whose value is in [0, 2^63 - 1] ends with no
\* error and a record with every field, of that value, whatever its flag.
C5_InRangeDecodes ==
  [][DecodeStep =>
       \A t \in {Trim(inputId)} :
         HasValue(t) =>
           \A v \in {TextValue(t)} :
             BigLeq(v, TwoTo63Minus1) =>
               /\ error' = NoError
               /\ decodedId' # Null
               /\ DOMAIN decodedId' = RecordFields
               /\ decodedId'.decimalValue = v]_vars

\* a record with the flag false is shown without an error
C5_Witness ==
  /\ decodedId # Null
  /\ ~decodedId.isValid
  /\ error = NoError
  /\ Trim(inputId) = decodedId.originalId
  /\ BigLess(EpochOffset, decodedId.timestamp)

\* C6: a decodeId call on a text that trims to digits only calls BigInt, not
\* decode36, and a record it gives has the base-10 value of the text; on any
\* other non-empty text it calls decode36.
C6_DecimalDispatch ==
  [][DecodeStep =>
       \A t \in {Trim(inputId)} :
         /\ (t # << >> /\ AllIn(t, Digits) =>
               /\ Called(calls') \cap {"BigInt", "decode36"} = {"BigInt"}
               /\ \A v \in {RadixValue(t, 10)} :
                    IF BigLeq(v, TwoTo63Minus1)
                    THEN decodedId' # Null /\ decodedId'.decimalValue = v
                    ELSE error' = OutOfRangeError)
         /\ (t # << >> /\ ~AllIn(t, Digits) =>
               Called(calls') \cap {"BigInt", "decode36"} = {"decode36"})]_vars

\* "0123456" has been decoded to 123456
C6_Witness ==
  /\ inputId = <<48, 49, 50, 51, 52, 53, 54>>
  /\ decodedId # Null
  /\ decodedId.originalId = inputId
  /\ decodedId.decimalValue = FromInt(123456)
  /\ calls[1] = "BigInt"

\* C7: a decodeId call on a text of white space only (or empty) ends with the
\* empty-input error, no record and no call of BigInt, decode36 or any other
\* function of the decoder.
C7_EmptyInput ==
  [][DecodeStep /\ AllIn(inputId, WhiteSpace) =>
       /\ error' = EmptyInputError
       /\ decodedId' = Null
       /\ calls' = << >>
       /\ now' = Null]_vars

\* a text of one space has been refused as empty
C7_Witness ==
  /\ inputId = <<32>>
  /\ error = EmptyInputError
  /\ decodedId = Null
  /\ calls = << >>

\* C8: a decodeId call on a text that trims to a non-empty text that is not
\* all digits and holds a code unit outside 0-9, A-Z, a-z ends with the
\* invalid-format error and no record.
C8_InvalidFormat ==
  [][DecodeStep =>
       \A t \in {Trim(inputId)} :
         t # << >> /\ ~AllIn(t, Digits) /\ ~AllIn(t, Alnum) =>
           error' = InvalidFormatError /\ decodedId' = Null]_vars

\* C9: the flag of a record is timestamp > 1451574000000 and timestamp <=
\* now + 60000, for the now read by the call that built it: false at the
\* offset, true 30 s and 60 s ahead of now, false 2 h ahead.
C9_Plausibility ==
  decodedId # Null =>
    /\ now # Null
    /\ decodedId.isValid =
         (/\ BigLess(EpochOffset, decodedId.timestamp)
          /\ BigLeq(decodedId.timestamp, BigAdd(now.val, FromInt(60000))))
    /\ (decodedId.timestamp = EpochOffset => ~decodedId.isValid)
    /\ (decodedId.timestamp = BigAdd(now.val, FromInt(30000)) => decodedId.isValid)
    /\ (decodedId.timestamp = BigAdd(now.val, FromInt(60000)) => decodedId.isValid)
    /\ (decodedId.timestamp = BigAdd(now.val, FromInt(7200000)) => ~decodedId.isValid)

\* a record whose timestamp is exactly 60000 ms ahead of now, flag true
C9_Witness ==
  /\ decodedId # Null
  /\ now # Null
  /\ decodedId.timestamp = BigAdd(now.val, FromInt(60000))
  /\ decodedId.isValid

\* C10: whenever an error is set, no record is exposed.
C10_NoRecordWithError == error # NoError => decodedId = Null

\* "12.34" has been refused: the invalid-format error and no record
C10_Witness ==
  /\ inputId = <<49, 50, 46, 51, 52>>
  /\ error = InvalidFormatError
  /\ decodedId = Null
  /\ calls = <<"decode36">>

\* C11: for the raw value v of every record (0 <= v <= 2^63 - 1), decode36 of
\* the upper-case base-36 text encodeToBase36(v) returns v, and that text has
\* the digits 0-9 and A-Z only.
C11_Base36RoundTrip ==
  decodedId # Null =>
    \A text \in {encodeToBase36(decodedId.decimalValue)} :
      /\ AllIn(text, Digits \cup (65..90))
      /\ decode36(text) = Some(decodedId.decimalValue)

\* the record of 2^63 - 1, whose base-36 text is "1Y2P0IJ32E8E7"
C11_Witness ==
  /\ decodedId # Null
  /\ decodedId.decimalValue = TwoTo63Minus1
  /\ encodeToBase36(decodedId.decimalValue) =
       <<49, 89, 50, 80, 48, 73, 74, 51, 50, 69, 56, 69, 55>>

\* decimal digits with no leading zero, "0" itself included
CanonicalDecimal(s) ==
  s # << >> /\ AllIn(s, Digits) /\ (Len(s) > 1 => s[1] # 48)

\* C12: a decodeId call on the canonical decimal text of a value v in
\* [0, 2^63 - 1] ends with a record whose decimalValue is v, and
\* decimalValue.toString() is that text again.
C12_DecimalRoundTrip ==
  [][DecodeStep /\ CanonicalDecimal(inputId) =>
       \A v \in {RadixValue(inputId, 10)} :
         BigLeq(v, TwoTo63Minus1) =>
           /\ decodedId' # Null
           /\ decodedId'.decimalValue = v
           /\ BigIntToString(decodedId'.decimalValue, 10) = inputId]_vars

\* "9223372036854775807" has been decoded by BigInt to a record that prints
\* as the same text
C12_Witness ==
  /\ inputId = <<57, 50, 50, 51, 51, 55, 50, 48, 51, 54, 56, 53, 52, 55, 55, 53,
                 56, 48, 55>>
  /\ decodedId # Null
  /\ BigIntToString(decodedId.decimalValue, 10) = inputId
  /\ calls[1] = "BigInt"

\* C13: the originalId of the record a decodeId call builds is the input text
\* as typed, white space before and after it included.
C13_OriginalUnmodified ==
  [][DecodeStep /\ decodedId' # Null => decodedId'.originalId = inputId]_vars

\* text is s without the white space before and after it: s is white space,
\* then text, then white space, and text neither starts nor ends with any
Stripped(s, text) ==
  /\ text # << >> => text[1] \notin WhiteSpace /\ text[Len(text)] \notin WhiteSpace
  /\ \E l \in 0..Len(s) :
       /\ l + Len(text) <= Len(s)
       /\ SubSeq(s, l + 1, l + Len(text)) = text
       /\ AllIn(SubSeq(s, 1, l), WhiteSpace)
       /\ AllIn(SubSeq(s, l + Len(text) + 1, Len(s)), WhiteSpace)

\* C13 as amended: the originalId of the record a decodeId call builds is the
\* input text without the white space before and after it, otherwise as
\* typed (letter case and leading zeros kept).
C13_OriginalTrimmed ==
  [][DecodeStep /\ decodedId' # Null =>
       /\ decodedId'.originalId # << >>
       /\ Stripped(inputId, decodedId'.originalId)]_vars

\* " 1A " has been decoded: the record's originalId is "1A"
C13_Witness ==
  /\ inputId = <<32, 49, 65, 32>>
  /\ decodedId # Null
  /\ decodedId.originalId = <<49, 65>>
  /\ decodedId.decimalValue = FromInt(46)

\* a step of decodeId on a text while the record of an earlier decodeId call
\* on that text (up to the white space around it) is still shown
DecodeAgainStep ==
  /\ DecodeStep
  /\ decodedId # Null
  /\ decodedId' # Null
  /\ decodedId.originalId = Trim(inputId)

AlternateCase(s) ==
  [i \in 1..Len(s) |->
     IF i % 2 = 1 THEN ToUpperCase(<<s[i]>>)[1] ELSE ToLowerCase(<<s[i]>>)[1]]

\* C15: for the text typed, once trimmed, when it is digits and letters only:
\* decode36 of the text, of its upper case, of its lower case and of a mix of
\* cases all give the positional base-36 value with 0-9 as 0-9 and A-Z, a-z
\* as 10-35; "Z" and "z" give 35, "1A" gives 46 and "10" gives 36.
C15_CaseInsensitive ==
  \A t \in {Trim(inputId)} :
    HasValue(t) =>
      \A v \in {Some(RadixValue(t, 36))} :
        /\ decode36(t) = v
        /\ decode36(ToUpperCase(t)) = v
        /\ decode36(ToLowerCase(t)) = v
        /\ decode36(AlternateCase(t)) = v
        /\ (t \in {<<90>>, <<122>>} => v = Some(FromInt(35)))
        /\ (t = <<49, 65>> => v = Some(FromInt(46)))
        /\ (t = <<49, 48>> => v = Some(FromInt(36)))

\* "Z" has been decoded by decode36 to 35
C15_Witness ==
  /\ inputId = <<90>>
  /\ decodedId # Null
  /\ decodedId.decimalValue = FromInt(35)
  /\ calls[1] = "decode36"
  /\ decode36(inputId) = decode36(<<122>>)

TwoTo64Minus1 == BigSub(BigShl(FromInt(1), 64), FromInt(1))

\* C16: a decodeId call on a text of digits and letters, not all digits, whose
\* base-36 value is above 2^64 - 1 ends with the out-of-range error and no
\* record, after decode36 alone was called; decode36 returns the whole value
\* for it, not null and not the value modulo 2^64.
C16_Base36Overflow ==
  [][DecodeStep =>
       \A t \in {Trim(inputId)} :
         HasValue(t) /\ ~AllIn(t, Digits) =>
           \A v \in {RadixValue(t, 36)} :
             BigLess(TwoTo64Minus1, v) =>
               /\ error' = OutOfRangeError
               /\ decodedId' = Null
               /\ calls' = <<"decode36">>
               /\ decode36(ToLowerCase(t)) = Some(v)]_vars

\* "3W5E11264SGSG", 2^64 in base 36, has been refused as out of range
C16_Witness ==
  /\ inputId = <<51, 87, 53, 69, 49, 49, 50, 54, 52, 83, 71, 83, 71>>
  /\ error = OutOfRangeError
  /\ decodedId = Null
  /\ calls = <<"decode36">>

\* C17: in every record appId is in 0..127, clusterId in 0..3, sequence in
\* 0..16383 and timestamp in [1451574000000, 1451574000000 + 2^40 - 1].
C17_FieldRanges ==
  decodedId # Null =>
    /\ decodedId.appId \in 0..127
    /\ decodedId.clusterId \in 0..3
    /\ decodedId.sequence \in 0..16383
    /\ BigLeq(Millions(1451574, 0), decodedId.timestamp)
    /\ BigLeq(decodedId.timestamp,
              BigAdd(Millions(1451574, 0), Millions(1099511, 627775)))

\* the record of (2^40 - 1) * 2^23: the greatest timestamp, the other fields 0
C17_Witness ==
  /\ decodedId # Null
  /\ decodedId.timestamp = BigAdd(EpochOffset, MaxDelta)
  /\ decodedId.appId = 0 /\ decodedId.clusterId = 0 /\ decodedId.sequence = 0

\* C18: what a decodeId call leaves in error and decodedId is a function of
\* the input text, the selected time zone and the clock value alone: for
\* some clock value it is what the decoding of these three gives, whatever
\* record, error, clock value and call list the earlier operations left.
C18_Stateless ==
  [][DecodeStep =>
       \E clock \in Nows :
         \A o \in {DecodeOutcome(inputId, selectedTimezone, clock)} :
           /\ error' = o.error
           /\ decodedId' = o.decodedId]_vars

\* the out-of-range error of an earlier call is still shown while the text
\* typed since, "1A", is one that decodes
C18_Witness ==
  /\ error = OutOfRangeError
  /\ decodedId = Null
  /\ calls # << >>
  /\ inputId = <<49, 65>>

\* the number of places of s that hold e
Count(s, e) == Cardinality({k \in 1..Len(s) : s[k] = e})

\* t holds the entries of s, each as many times as s does
Permutation(s, t) ==
  /\ Len(s) = Len(t)
  /\ \A k \in 1..Len(s) : Count(s, s[k]) = Count(t, s[k])

\* the places of s whose entry has another id than id
KeptPlaces(s, id) == {p \in 1..Len(s) : s[p].id # id}

\* C19: a moveFile(index, direction) call leaves a permutation of the list:
\* the entry at index and its neighbour exchanged and every other entry in
\* its place, or the list as it was when the neighbour would be outside it
\* (up at 0, down at the last index).  A removeFile(id) call leaves the
\* entries with another id, all of them, in the order they had.
C19_MoveAndRemove ==
  [][/\ lastCall'.op = "moveFile" =>
          LET i == lastCall'.index + 1
              j == IF lastCall'.direction = "up" THEN i - 1 ELSE i + 1
          IN  /\ Permutation(uploadedFiles, uploadedFiles')
              /\ IF j \in 1..Len(uploadedFiles)
                 THEN /\ uploadedFiles'[i] = uploadedFiles[j]
                      /\ uploadedFiles'[j] = uploadedFiles[i]
                      /\ \A k \in 1..Len(uploadedFiles) \ {i, j} :
                           uploadedFiles'[k] = uploadedFiles[k]
                 ELSE uploadedFiles' = uploadedFiles
     /\ lastCall'.op = "removeFile" =>
          LET kept == KeptPlaces(uploadedFiles, lastCall'.id)
          IN  /\ Len(uploadedFiles') = Cardinality(kept)
              /\ \A p \in kept :
                   uploadedFiles'[Cardinality({q \in kept : q <= p})] =
                     uploadedFiles[p]]_pdfVars

\* the down arrow of the middle row of three was the last call: the entry
\* now last was exchanged with one of another id and another name, and the
\* list holds two entries with the same id
C19_Witness ==
  /\ lastCall = [op |-> "moveFile", index |-> 1, direction |-> "down"]
  /\ Len(uploadedFiles) = 3
  /\ uploadedFiles[1].id = uploadedFiles[2].id
  /\ uploadedFiles[3].id # uploadedFiles[2].id
  /\ uploadedFiles[3].name # uploadedFiles[2].name

\* C20: the masks the decoder defines, with which every record shown was
\* built, are MASK0 = 0x7F, MASK1 = 0x3, MASK2 = 0x3FFF and
\* MASK3 = 0xFFFFFFFFFF = 2^40 - 1.
C20_MaskValues ==
  decodedId # Null =>
    /\ MASK0 = FromInt(127)
    /\ MASK1 = FromInt(3)
    /\ MASK2 = FromInt(16383)
    /\ MASK3 = MaxDelta

\* C21: in every state reached by edits of the input, decodeId, clearAll and
\* handleTimezoneChange calls, error and decodedId are not both non-null.
C21_NotBoth == ~(decodedId # Null /\ error # NoError)

\* after a record was shown and switched to the local time zone the input
\* was changed to white space, and decodeId has refused it: the error alone
C21_Witness ==
  /\ selectedTimezone = "local"
  /\ inputId = <<32>>
  /\ error = EmptyInputError
  /\ decodedId = Null

\* C22: the formattedTimestamp of the record shown is the formatting of its
\* own timestamp in the selected time zone, after every step; a step that
\* changes the selected time zone changes nothing else but formattedTimestamp:
\* the other fields of the record, the error and the input stay.
C22_TimezoneConsistency ==
  [][/\ decodedId' # Null =>
          decodedId'.formattedTimestamp =
            formatTimestamp(decodedId'.timestamp, selectedTimezone').val
     /\ selectedTimezone' # selectedTimezone =>
          /\ decodedId # Null /\ decodedId' # Null
          /\ [decodedId' EXCEPT
                !.formattedTimestamp = decodedId.formattedTimestamp] = decodedId
          /\ error' = error
          /\ inputId' = inputId]_vars

\* the record of 1035630607911173 shown in the local time zone (UTC+1):
\* "2016/01/02 10:17:36.789" in Japan is "2016/01/02 02:17:36.789" there
C22_Witness ==
  /\ selectedTimezone = "local"
  /\ decodedId # Null
  /\ decodedId.timestamp = Millions(1451697, 456789)
  /\ decodedId.formattedTimestamp =
       <<50, 48, 49, 54, 47, 48, 49, 47, 48, 50, 32, 48, 50, 58, 49, 55, 58,
         51, 54, 46, 55, 56, 57>>

\* upper-case base-36 text as encodeToBase36 gives it: digits and A-Z, no
\* leading zero, at least one letter
ShownBase36(s) ==
  /\ s # << >>
  /\ AllIn(s, Digits \cup (65..90))
  /\ ~AllIn(s, Digits)
  /\ s[1] # 48

\* C23: a decodeId call on the Base-36 value shown for a value v in
\* [0, 2^63 - 1], when that text has a letter, ends with a record whose
\* decimalValue is v, parsed by decode36, and whose Base-36 value shown is the
\* text again.
C23_Base36EndToEnd ==
  [][DecodeStep /\ ShownBase36(inputId) =>
       \A v \in {RadixValue(inputId, 36)} :
         BigLeq(v, TwoTo63Minus1) =>
           /\ error' = NoError
           /\ decodedId' # Null
           /\ decodedId'.decimalValue = v
           /\ calls'[1] = "decode36"
           /\ encodeToBase36(decodedId'.decimalValue) = inputId]_vars

\* "1Y2P0IJ32E8E7", the Base-36 value shown for 2^63 - 1, has been decoded
\* to 2^63 - 1
C23_Witness ==
  /\ inputId = <<49, 89, 50, 80, 48, 73, 74, 51, 50, 69, 56, 69, 55>>
  /\ decodedId # Null
  /\ decodedId.decimalValue = TwoTo63Minus1
  /\ decodedId.originalId = inputId
  /\ calls[1] = "decode36"

\* C24: a handleIndentSizeChange call made while the input holds valid,
\* non-empty JSON leaves in formattedJson the input serialized again with the
\* indent size it selects.
C24_IndentApplied ==
  [][jsonCall' = "handleIndentSizeChange" /\ indentSize' # indentSize
       /\ Trim(inputJson) # << >> /\ JsonParse(inputJson).ok =>
       formattedJson' = JsonStringify(JsonParse(inputJson).value, indentSize')]_jsonVars

\* the sequences of a sequence, one after the other
RECURSIVE ConcatAll(_)
ConcatAll(seqs) ==
  IF seqs = << >> THEN << >> ELSE Head(seqs) \o ConcatAll(Tail(seqs))

\* the number of lines of a text: one more than its line feeds
LineCount(text) == Cardinality({i \in 1..Len(text) : text[i] = 10}) + 1

\* a step in which a processFile call in split mode gets the text of its
\* file and gives out its parts
SplitStep ==
  /\ splitJob # Null
  /\ splitJob' = Null
  /\ splitJob.val.splitOption.mode = "split"
  /\ splitError' # ProcessError

\* C25: a processFile call in split mode with a number of files n in 2..100
\* gives out exactly n parts, each of at most ceil(L/n) of the L lines of the
\* file, and the lines of the parts, taken in the order of the parts, are the
\* lines of the file: there are L of them and, joined by line feeds, they are
\* the text of the file.
C25_SplitCovers ==
  [][SplitStep /\ splitJob.val.splitOption.numberOfFiles \in 2..100 =>
       \A n \in {splitJob.val.splitOption.numberOfFiles} :
         \A text \in {splitJob.val.uploadedFile.file.text} :
           \A all \in {ConcatAll([k \in 1..Len(downloads') |->
                                    downloads'[k].fileLines])} :
             /\ Len(downloads') = n
             /\ \A k \in 1..n :
                  Len(downloads'[k].fileLines) * n < LineCount(text) + n
             /\ Len(all) = LineCount(text)
             /\ Join(all, <<10>>) = text]_splitVars

\* log.txt, of five lines, was split into three parts of two, two and one
\* lines, the last one log_03.txt holding the line e
C25_Witness ==
  /\ ~splitIsProcessing
  /\ Len(downloads) = 3
  /\ Len(downloads[1].fileLines) = 2
  /\ Len(downloads[2].fileLines) = 2
  /\ downloads[3].fileLines = <<(<<101>>)>>
  /\ downloads[3].download = <<108, 111, 103, 95, 48, 51, 46, 116, 120, 116>>

\* the File objects of a list of entries, in the order of the list
FilesOf(list) == [i \in 1..Len(list) |-> list[i].file]

\* s is the beginning of t
IsPrefix(s, t) == Len(s) <= Len(t) /\ SubSeq(t, 1, Len(s)) = s

\* C26: a merge works on the list as it was when mergePdfs was called.  The
\* call in progress holds the list of that moment; every later step of the
\* page, a removeFile, moveFile or onDrop call among them, leaves that list
\* to the call, the pages merged so far are the files at the beginning of
\* that list in its order, and the file given out in the end has the files of
\* that list, all of them and in its order.
C26_MergeOfListAtCall ==
  [][/\ mergeJob = Null /\ mergeJob' # Null =>
          mergeJob'.val.files = uploadedFiles
     /\ mergeJob # Null /\ mergeJob' # Null =>
          /\ mergeJob'.val.files = mergeJob.val.files
          /\ IsPrefix(mergeJob'.val.pages, FilesOf(mergeJob.val.files))
     /\ mergeJob # Null /\ mergedDownload' # mergedDownload =>
          mergedDownload' = Some(FilesOf(mergeJob.val.files))]_pdfVars

\* a merge of a.pdf and b.pdf has added the pages of both and awaits save()
\* while the list, after a removeFile call, shows b.pdf alone
C26_Witness ==
  /\ mergeJob # Null
  /\ mergeJob.val.awaiting = "save"
  /\ Len(mergeJob.val.pages) = 2
  /\ mergeJob.val.pages[1].name = "a.pdf"
  /\ mergeJob.val.pages[2].name = "b.pdf"
  /\ Len(uploadedFiles) = 1
  /\ uploadedFiles[1].name = "b.pdf"
  /\ lastCall.op = "mergePdfs"

\* a step that ends a mergePdfs call in progress
MergeEnds == mergeJob # Null /\ mergeJob' = Null

\* C27: every mergePdfs call started with a non-empty list ends, isProcessing
\* being false then, whether the merge succeeds or a promise is rejected.  A
\* call that fails sets the error and gives no file out; a call with an empty
\* list sets the error and leaves isProcessing false.
C27_MergeEnds ==
  /\ isProcessing ~> ~isProcessing
  /\ [][/\ MergeEnds => ~isProcessing'
        /\ MergeEnds /\ "rejected" \in DOMAIN lastCall' =>
             pdfError' = MergeError /\ mergedDownload' = Null
        /\ MergeEnds /\ "resolved" \in DOMAIN lastCall' =>
             mergedDownload' # Null /\ pdfError' = pdfError
        /\ lastCall' = [op |-> "mergePdfs", files |-> 0] =>
             /\ pdfError' = MergeEmptyError
             /\ ~isProcessing'
             /\ mergeJob' = Null
        /\ isProcessing' /\ ~isProcessing =>
             mergeJob' # Null /\ Len(uploadedFiles) > 0]_pdfVars

\* a merge has failed as PDFDocument.load() was rejected: the error is shown,
\* nothing was given out and the page is not processing
C27_Witness ==
  /\ lastCall = [op |-> "mergePdfs", rejected |-> "load"]
  /\ pdfError = MergeError
  /\ mergedDownload = Null
  /\ ~isProcessing
  /\ mergeJob = Null

====
